---- MODULE Spec2Model ----
(***************************************************************************)
(* The listings application of alx_travel_app: the relational store of     *)
(* Users, Listings, Bookings and Reviews (listings/models.py) and the      *)
(* write and read paths of the REST serializers (listings/serializers.py). *)
(*                                                                         *)
(* Money is counted in hundredths (DecimalField, decimal_places=2), dates  *)
(* in days.  Primary keys are UUIDs in the code; here a new record takes   *)
(* the smallest identifier that no stored record of its table uses.       *)
(* A request field is a set: {} when the client left the field out, {v}   *)
(* when the client sent v.  Text fields, timestamps and Booking.status     *)
(* play no part in any rule below and are left out of the records.         *)
(***************************************************************************)
EXTENDS Integers, FiniteSets

VARIABLES users, listings, bookings, reviews, resp

vars == <<users, listings, bookings, reviews, resp>>

\* ---------------------------------------------------------------- bounds
MaxUsers == 3
MaxListings == 1
MaxBookings == 1
MaxReviews == 3
MaxDate == 2

UserIds == 1..MaxUsers
ListingIds == 1..MaxListings
BookingIds == 1..MaxBookings
ReviewIds == 1..MaxReviews
Dates == 0..MaxDate

\* pricepernight values clients send, 100.00 and 45.50; every product with
\* a number of nights stays far inside DecimalField(max_digits=10)
Prices == {10000, 4550}
\* total_price values a client may put in a request body
ClientTotals == {1}
MinRating == 1
MaxRating == 5
\* ratings clients send: the two limits, one value inside, one below, one above
RatingInputs == {MinRating - 1, MinRating, MinRating + 1, MaxRating, MaxRating + 1}

Opt(S) == {{}} \cup {{v} : v \in S}
Val(f) == CHOOSE v \in f : TRUE

\* ---------------------------------------------------------------- store
ListingPks == {l.listing_id : l \in listings}
BookingPks == {b.booking_id : b \in bookings}
ReviewPks == {r.review_id : r \in reviews}
GetListing(id) == CHOOSE l \in listings : l.listing_id = id
\* default=uuid.uuid4: a key no stored record has (the smallest one; the
\* guards of the create actions keep it inside ids)
NewPk(ids, used) ==
    LET free == (ids \cup {Cardinality(ids) + 1}) \ used
    IN  CHOOSE i \in free : \A j \in free : i <= j

\* what the last operation answered: its errors, and for a read the body
Ok(op) == [op |-> op, errors |-> {}, data |-> {}]
Fail(op, errs) == [op |-> op, errors |-> errs, data |-> {}]
Body(op, body) == [op |-> op, errors |-> {}, data |-> {body}]

Init ==
    /\ users = {}
    /\ listings = {}
    /\ bookings = {}
    /\ reviews = {}
    /\ resp = Ok("init")

\* ---------------------------------------------------------------- users
\* settings.AUTH_USER_MODEL: the user table is kept by the framework
UserCreate ==
    /\ users # UserIds
    /\ users' = users \cup {NewPk(UserIds, users)}
    /\ resp' = Ok("UserCreate")
    /\ UNCHANGED <<listings, bookings, reviews>>

\* on_delete=models.CASCADE of Listing.host: the listings that go with users us
CascadeListings(us) == {l \in listings : l.host \in us}
\* CascadeBookings with Booking.listing left without on_delete=CASCADE
CascadeBookings_user_only(ls, us) == {b \in bookings : b.user \in us}

\* on_delete=models.CASCADE of Booking.listing and Booking.user: the bookings
\* that go with the listings with keys ls and the users us
CascadeBookings(ls, us) == {b \in bookings : b.listing \in ls \/ b.user \in us}
\* on_delete=models.CASCADE of Review.listing and Review.user
CascadeReviews(ls, us) == {r \in reviews : r.listing \in ls \/ r.user \in us}

\* user.delete(): the collector follows every CASCADE relation, so the
\* listings the user hosts take their own bookings and reviews with them
UserDelete(u) ==
    LET gone == {l.listing_id : l \in CascadeListings({u})}
    IN  /\ u \in users
        /\ users' = users \ {u}
        /\ listings' = listings \ CascadeListings({u})
        /\ bookings' = bookings \ CascadeBookings(gone, {u})
        /\ reviews' = reviews \ CascadeReviews(gone, {u})
        /\ resp' = Ok("UserDelete")

\* ---------------------------------------------------- serializer fields
\* A create or PUT request names every required field; a PATCH request may
\* leave any of them out (partial=True), and a field left out is skipped.
\* PrimaryKeyRelatedField(queryset=...): the errors of one *_id field
PrimaryKeyRelatedField(name, f, queryset) ==
    IF f = {} \/ Val(f) \in queryset THEN {} ELSE {<<name, "does_not_exist">>}

\* -------------------------------------------------------------- listings
ListingRequests == [host_id : Opt(UserIds), pricepernight : Opt(Prices)]
ListingCreateRequests == {q \in ListingRequests : q.host_id # {} /\ q.pricepernight # {}}

\* ListingFieldErrors with host_id taken without a queryset lookup
ListingFieldErrors_unchecked(req) == {}

ListingFieldErrors(req) ==
    PrimaryKeyRelatedField("host_id", req.host_id, users)

ListingHasRoom == ListingPks # ListingIds

\* ListingSerializer: is_valid() and then ModelSerializer.create
ListingCreateOutcome(req) ==
    LET errs == ListingFieldErrors(req)
    IN  IF errs # {}
        THEN [listings |-> listings, resp |-> Fail("ListingCreate", errs)]
        ELSE [listings |-> listings \cup
                  {[listing_id |-> NewPk(ListingIds, ListingPks),
                    host |-> Val(req.host_id),
                    pricepernight |-> Val(req.pricepernight)]},
              resp |-> Ok("ListingCreate")]

\* ListingSerializer: is_valid() and then ModelSerializer.update, which
\* assigns every validated attribute to the instance and saves it
ListingUpdateOutcome(l, req) ==
    LET errs == ListingFieldErrors(req)
        new == [listing_id |-> l.listing_id,
                host |-> IF req.host_id = {} THEN l.host ELSE Val(req.host_id),
                pricepernight |-> IF req.pricepernight = {} THEN l.pricepernight
                                  ELSE Val(req.pricepernight)]
    IN  IF errs # {}
        THEN [listings |-> listings, resp |-> Fail("ListingUpdate", errs)]
        ELSE [listings |-> (listings \ {l}) \cup {new}, resp |-> Ok("ListingUpdate")]

ListingCreate(req) ==
    /\ ListingFieldErrors(req) # {} \/ ListingHasRoom
    /\ listings' = ListingCreateOutcome(req).listings
    /\ resp' = ListingCreateOutcome(req).resp
    /\ UNCHANGED <<users, bookings, reviews>>

ListingUpdate(l, req) ==
    /\ l \in listings
    /\ listings' = ListingUpdateOutcome(l, req).listings
    /\ resp' = ListingUpdateOutcome(l, req).resp
    /\ UNCHANGED <<users, bookings, reviews>>

\* listing.delete()
ListingDelete(l) ==
    /\ l \in listings
    /\ listings' = listings \ {l}
    /\ bookings' = bookings \ CascadeBookings({l.listing_id}, {})
    /\ reviews' = reviews \ CascadeReviews({l.listing_id}, {})
    /\ resp' = Ok("ListingDelete")
    /\ UNCHANGED users

\* -------------------------------------------------------------- bookings
\* a client may name a key that no listing has or will have
RequestListingIds == ListingIds \cup {MaxListings + 1}
BookingRequests ==
    [listing_id : Opt(RequestListingIds), user_id : Opt(UserIds),
     start_date : Opt(Dates), end_date : Opt(Dates), total_price : Opt(ClientTotals)]
BookingCreateRequests ==
    {q \in BookingRequests : /\ q.listing_id # {} /\ q.user_id # {}
                             /\ q.start_date # {} /\ q.end_date # {}}

BookingFieldErrors(req) ==
    PrimaryKeyRelatedField("listing_id", req.listing_id, ListingPks)
        \cup PrimaryKeyRelatedField("user_id", req.user_id, users)

EndDateMessage == <<"non_field_errors", "End date must be after start date.">>
OneNightMessage == <<"detail", "Booking must be for at least one night.">>
KeyError == <<"server_error", "KeyError">>

\* to_internal_value with total_price missing from read_only_fields
to_internal_value_total_price_writable(req) ==
    [listing |-> req.listing_id, user |-> req.user_id,
     start_date |-> req.start_date, end_date |-> req.end_date,
     total_price |-> req.total_price]

\* the validated data of a request: listing_id and user_id arrive under
\* their source names, and the read-only total_price is never taken over
to_internal_value(req) ==
    [listing |-> req.listing_id, user |-> req.user_id,
     start_date |-> req.start_date, end_date |-> req.end_date,
     total_price |-> {}]


\* validate with the comparison of the dates made strict
validate_strict(data) ==
    IF data.start_date = {} \/ data.end_date = {}
    THEN {KeyError}
    ELSE IF Val(data.start_date) >= Val(data.end_date) THEN {EndDateMessage} ELSE {}

\* BookingSerializer.validate: data['start_date'] and data['end_date'] are
\* read without a check that a PATCH supplied them
validate(data) ==
    IF data.start_date = {} \/ data.end_date = {}
    THEN {KeyError}
    ELSE IF Val(data.start_date) > Val(data.end_date) THEN {EndDateMessage} ELSE {}

\* is_valid(): the field errors, and validate() only when there are none
BookingValidationErrors(req) ==
    LET errs == BookingFieldErrors(req)
    IN  IF errs # {} THEN errs ELSE validate(to_internal_value(req))

BookingHasRoom == BookingPks # BookingIds

\* create with the night count tested by < instead of <=
create_allows_zero_nights(validated_data) ==
    LET listing == GetListing(Val(validated_data.listing))
        start_date == Val(validated_data.start_date)
        end_date == Val(validated_data.end_date)
        num_nights == end_date - start_date
        total_price == listing.pricepernight * num_nights
    IN  IF num_nights < 0
        THEN [bookings |-> bookings, resp |-> Fail("BookingCreate", {OneNightMessage})]
        ELSE [bookings |-> bookings \cup
                  {[booking_id |-> NewPk(BookingIds, BookingPks),
                    listing |-> listing.listing_id,
                    user |-> Val(validated_data.user),
                    start_date |-> start_date,
                    end_date |-> end_date,
                    total_price |-> total_price]},
              resp |-> Ok("BookingCreate")]

\* BookingSerializer.create
create(validated_data) ==
    LET listing == GetListing(Val(validated_data.listing))
        start_date == Val(validated_data.start_date)
        end_date == Val(validated_data.end_date)
        num_nights == end_date - start_date
        total_price == listing.pricepernight * num_nights
    IN  IF num_nights <= 0
        THEN [bookings |-> bookings, resp |-> Fail("BookingCreate", {OneNightMessage})]
        ELSE [bookings |-> bookings \cup
                  {[booking_id |-> NewPk(BookingIds, BookingPks),
                    listing |-> listing.listing_id,
                    user |-> Val(validated_data.user),
                    start_date |-> start_date,
                    end_date |-> end_date,
                    total_price |-> total_price]},
              resp |-> Ok("BookingCreate")]

\* ModelSerializer.update, which BookingSerializer does not override:
\* every validated attribute is assigned to the instance, which is saved
update(instance, validated_data) ==
    LET Attr(f, old) == IF f = {} THEN old ELSE Val(f)
        new == [booking_id |-> instance.booking_id,
                listing |-> Attr(validated_data.listing, instance.listing),
                user |-> Attr(validated_data.user, instance.user),
                start_date |-> Attr(validated_data.start_date, instance.start_date),
                end_date |-> Attr(validated_data.end_date, instance.end_date),
                total_price |-> Attr(validated_data.total_price, instance.total_price)]
    IN  [bookings |-> (bookings \ {instance}) \cup {new}, resp |-> Ok("BookingUpdate")]

BookingCreateOutcome(req) ==
    LET errs == BookingValidationErrors(req)
    IN  IF errs # {}
        THEN [bookings |-> bookings, resp |-> Fail("BookingCreate", errs)]
        ELSE create(to_internal_value(req))

BookingUpdateOutcome(b, req) ==
    LET errs == BookingValidationErrors(req)
    IN  IF errs # {}
        THEN [bookings |-> bookings, resp |-> Fail("BookingUpdate", errs)]
        ELSE update(b, to_internal_value(req))

BookingCreate(req) ==
    /\ BookingCreateOutcome(req).resp.errors # {} \/ BookingHasRoom
    /\ bookings' = BookingCreateOutcome(req).bookings
    /\ resp' = BookingCreateOutcome(req).resp
    /\ UNCHANGED <<users, listings, reviews>>

BookingUpdate(b, req) ==
    /\ b \in bookings
    /\ bookings' = BookingUpdateOutcome(b, req).bookings
    /\ resp' = BookingUpdateOutcome(b, req).resp
    /\ UNCHANGED <<users, listings, reviews>>

BookingDelete(b) ==
    /\ b \in bookings
    /\ bookings' = bookings \ {b}
    /\ resp' = Ok("BookingDelete")
    /\ UNCHANGED <<users, listings, reviews>>

\* --------------------------------------------------------------- reviews
\* The repository has no Review serializer: a Review is written through the
\* model's own validation, full_clean() and then save().
ReviewRequests ==
    [listing : Opt(RequestListingIds), user : Opt(UserIds), rating : Opt(RatingInputs)]
ReviewCreateRequests ==
    {q \in ReviewRequests : q.listing # {} /\ q.user # {} /\ q.rating # {}}

\* RatingValidators with the MaxValueValidator left out
RatingValidators_min_only(rating) ==
    IF rating < MinRating THEN {<<"rating", "min_value">>} ELSE {}

\* Review.rating: validators=[MinValueValidator(1), MaxValueValidator(5)]
RatingValidators(rating) ==
    (IF rating < MinRating THEN {<<"rating", "min_value">>} ELSE {})
        \cup (IF rating > MaxRating THEN {<<"rating", "max_value">>} ELSE {})

\* clean_fields(): the foreign keys must name stored rows, the rating must
\* pass its validators
ReviewFieldErrors(r) ==
    (IF r.listing \in ListingPks THEN {} ELSE {<<"listing", "does_not_exist">>})
        \cup (IF r.user \in users THEN {} ELSE {<<"user", "does_not_exist">>})
        \cup RatingValidators(r.rating)

\* UniqueTogether with unique_together left out of Review.Meta
UniqueTogether_absent(r) == {}

\* Review.Meta.unique_together = ('listing', 'user'): validate_unique() skips
\* the check when one of its fields failed clean_fields()
UniqueTogether(r) ==
    IF /\ r.listing \in ListingPks
       /\ r.user \in users
       /\ \E o \in reviews : /\ o.review_id # r.review_id
                             /\ o.listing = r.listing
                             /\ o.user = r.user
    THEN {<<"__all__", "unique_together">>}
    ELSE {}

full_clean(r) == ReviewFieldErrors(r) \cup UniqueTogether(r)

ReviewHasRoom == ReviewPks # ReviewIds

ReviewCreateOutcome(req) ==
    LET new == [review_id |-> NewPk(ReviewIds, ReviewPks),
                listing |-> Val(req.listing),
                user |-> Val(req.user),
                rating |-> Val(req.rating)]
    IN  IF full_clean(new) # {}
        THEN [reviews |-> reviews, resp |-> Fail("ReviewCreate", full_clean(new))]
        ELSE [reviews |-> reviews \cup {new}, resp |-> Ok("ReviewCreate")]

ReviewUpdateOutcome(r, req) ==
    LET Attr(f, old) == IF f = {} THEN old ELSE Val(f)
        new == [review_id |-> r.review_id,
                listing |-> Attr(req.listing, r.listing),
                user |-> Attr(req.user, r.user),
                rating |-> Attr(req.rating, r.rating)]
    IN  IF full_clean(new) # {}
        THEN [reviews |-> reviews, resp |-> Fail("ReviewUpdate", full_clean(new))]
        ELSE [reviews |-> (reviews \ {r}) \cup {new}, resp |-> Ok("ReviewUpdate")]

ReviewCreate(req) ==
    /\ ReviewCreateOutcome(req).resp.errors # {} \/ ReviewHasRoom
    /\ reviews' = ReviewCreateOutcome(req).reviews
    /\ resp' = ReviewCreateOutcome(req).resp
    /\ UNCHANGED <<users, listings, bookings>>

ReviewUpdate(r, req) ==
    /\ r \in reviews
    /\ reviews' = ReviewUpdateOutcome(r, req).reviews
    /\ resp' = ReviewUpdateOutcome(r, req).resp
    /\ UNCHANGED <<users, listings, bookings>>

ReviewDelete(r) ==
    /\ r \in reviews
    /\ reviews' = reviews \ {r}
    /\ resp' = Ok("ReviewDelete")
    /\ UNCHANGED <<users, listings, bookings>>

\* ------------------------------------------------------- read projection
RECURSIVE SumRatings(_)
SumRatings(rs) ==
    IF rs = {} THEN 0
    ELSE LET r == CHOOSE x \in rs : TRUE IN r.rating + SumRatings(rs \ {r})

\* round replaced by a truncation to two places
round_down(total, count) == (100 * total) \div count

\* round(total / count, 2), in hundredths: the nearest hundredth, and the
\* even one when total / count lies halfway (which takes 8 reviews or more)
round(total, count) ==
    LET q == (100 * total) \div count
        rest == (100 * total) % count
    IN  IF 2 * rest > count THEN q + 1
        ELSE IF 2 * rest < count THEN q
        ELSE IF q % 2 = 0 THEN q ELSE q + 1

\* obj.reviews: the reverse relation related_name='reviews'
ReviewsOf(obj) == {r \in reviews : r.listing = obj.listing_id}

\* ListingSerializer.get_average_rating: {} stands for None
get_average_rating(obj) ==
    IF ReviewsOf(obj) # {}
    THEN {round(SumRatings(ReviewsOf(obj)), Cardinality(ReviewsOf(obj)))}
    ELSE {}

\* ListingSerializer(obj).data
ListingRead(obj) ==
    /\ obj \in listings
    /\ resp' = Body("ListingRead",
                    [listing_id |-> obj.listing_id,
                     host |-> obj.host,
                     pricepernight |-> obj.pricepernight,
                     average_rating |-> get_average_rating(obj)])
    /\ UNCHANGED <<users, listings, bookings, reviews>>

\* ---------------------------------------------------------- specifications
NextBooking ==
    \/ UserCreate
    \/ \E u \in UserIds : UserDelete(u)
    \/ \E req \in ListingCreateRequests : ListingCreate(req)
    \/ \E l \in listings, req \in ListingRequests :
           ListingUpdate(l, req)
    \/ \E l \in listings : ListingDelete(l)
    \/ \E req \in BookingCreateRequests : BookingCreate(req)
    \/ \E b \in bookings, req \in BookingRequests :
           BookingUpdate(b, req)
    \/ \E b \in bookings : BookingDelete(b)

SpecBooking == Init /\ [][NextBooking]_vars

\* the review table and the listing read projection over it; listings are
\* created at one price, which no rule about reviews reads
ReviewListingRequests == {q \in ListingCreateRequests : q.pricepernight = {10000}}

NextReview ==
    \/ UserCreate
    \/ \E u \in UserIds : UserDelete(u)
    \/ \E req \in ReviewListingRequests : ListingCreate(req)
    \/ \E l \in listings : ListingDelete(l)
    \/ \E req \in ReviewCreateRequests : ReviewCreate(req)
    \/ \E r \in reviews, req \in ReviewRequests : ReviewUpdate(r, req)
    \/ \E r \in reviews : ReviewDelete(r)
    \/ \E l \in listings : ListingRead(l)

SpecReview == Init /\ [][NextReview]_vars

\* every operation of the store together; the requests vary the records a
\* write refers to, at one price, one stay and one rating
StoreListingRequests == {q \in ListingRequests : q.pricepernight \in {{}, {10000}}}
StoreBookingRequests ==
    {q \in BookingCreateRequests :
        q.start_date = {0} /\ q.end_date = {1} /\ q.total_price = {}}
StoreReviewRequests == {q \in ReviewRequests : q.rating \in {{}, {MaxRating}}}

Next ==
    \/ UserCreate
    \/ \E u \in UserIds : UserDelete(u)
    \/ \E req \in StoreListingRequests \cap ListingCreateRequests : ListingCreate(req)
    \/ \E l \in listings, req \in StoreListingRequests : ListingUpdate(l, req)
    \/ \E l \in listings : ListingDelete(l)
    \/ \E req \in StoreBookingRequests : BookingCreate(req)
    \/ \E b \in bookings, req \in StoreBookingRequests : BookingUpdate(b, req)
    \/ \E b \in bookings : BookingDelete(b)
    \/ \E req \in StoreReviewRequests \cap ReviewCreateRequests : ReviewCreate(req)
    \/ \E r \in reviews, req \in StoreReviewRequests : ReviewUpdate(r, req)
    \/ \E r \in reviews : ReviewDelete(r)
    \/ \E l \in listings : ListingRead(l)

Spec == Init /\ [][Next]_vars

\* ------------------------------------------------------------ properties
Nights(b) == b.end_date - b.start_date
KeysExist(req) == Val(req.listing_id) \in ListingPks /\ Val(req.user_id) \in users
WithTotal(req, tp) == [req EXCEPT !.total_price = tp]
ListingDoesNotExist == <<"listing_id", "does_not_exist">>
UserDoesNotExist == <<"user_id", "does_not_exist">>
HostDoesNotExist == <<"host_id", "does_not_exist">>
UniqueConflict == <<"__all__", "unique_together">>
RatingErrors == {<<"rating", "min_value">>, <<"rating", "max_value">>}

\* C1: every stored Booking of one night or more has
\* total_price = its listing's pricepernight * nights, whatever creates,
\* updates and deletes of Listings and Bookings came before.
C1_TotalPriceIsPriceTimesNights ==
    \A b \in bookings :
        Nights(b) > 0 =>
            b.total_price = GetListing(b.listing).pricepernight * Nights(b)

\* C2: every stored Booking has start_date strictly before end_date.
C2_StartBeforeEnd == \A b \in bookings : b.start_date < b.end_date

\* C3: a Booking create request with end_date <= start_date ends in an error
\* and leaves the stored Bookings as they were; when its listing and user
\* exist the error is one of the two date validation errors.
C3_RejectedCreatePersistsNothing ==
    \A req \in BookingCreateRequests :
        Val(req.end_date) <= Val(req.start_date) =>
            LET out == BookingCreateOutcome(req)
            IN  /\ out.resp.errors # {}
                /\ out.bookings = bookings
                /\ KeysExist(req) =>
                       out.resp.errors \in {{EndDateMessage}, {OneNightMessage}}

C3_Witness ==
    /\ resp.op = "BookingCreate"
    /\ resp.errors = {OneNightMessage}
    /\ bookings # {}

\* C4: two Booking create requests, or two update requests of one Booking,
\* that differ only in the total_price of the body have the same outcome; a
\* created Booking stores pricepernight * nights and an updated one keeps
\* the total_price it had.
C4_TotalPriceNeverFromClient ==
    /\ \A req \in BookingCreateRequests : \A tp \in Opt(ClientTotals) :
           LET out == BookingCreateOutcome(WithTotal(req, tp))
           IN  /\ out = BookingCreateOutcome(WithTotal(req, {}))
               /\ \A n \in out.bookings \ bookings :
                      n.total_price =
                          GetListing(Val(req.listing_id)).pricepernight * Nights(n)
    /\ \A b \in bookings : \A req \in BookingRequests : \A tp \in Opt(ClientTotals) :
           LET out == BookingUpdateOutcome(b, WithTotal(req, tp))
           IN  /\ out = BookingUpdateOutcome(b, WithTotal(req, {}))
               /\ \A n \in out.bookings \ bookings : n.total_price = b.total_price

C4_Witness ==
    /\ resp.op = "BookingUpdate"
    /\ resp.errors = {}
    /\ \E b \in bookings : b.total_price \notin ClientTotals /\ Nights(b) = MaxDate

\* C5: no two stored Reviews share a (listing, user) pair; a create for a
\* pair that has a Review fails with the uniqueness conflict and stores
\* nothing, and a valid create for a pair that has none (a different user on
\* the same listing) succeeds.
C5_OneReviewPerListingAndUser ==
    /\ \A r1 \in reviews : \A r2 \in reviews :
           (r1.listing = r2.listing /\ r1.user = r2.user) => r1 = r2
    /\ \A req \in ReviewCreateRequests :
           LET out == ReviewCreateOutcome(req)
               taken == \E o \in reviews :
                            o.listing = Val(req.listing) /\ o.user = Val(req.user)
           IN  /\ taken => UniqueConflict \in out.resp.errors /\ out.reviews = reviews
               /\ (/\ ~taken
                   /\ Val(req.listing) \in ListingPks
                   /\ Val(req.user) \in users
                   /\ Val(req.rating) \in MinRating..MaxRating)
                    => /\ out.resp.errors = {}
                       /\ \E n \in out.reviews \ reviews :
                              /\ out.reviews = reviews \cup {n}
                              /\ n.listing = Val(req.listing)
                              /\ n.user = Val(req.user)

C5_Witness ==
    /\ resp.op = "ReviewCreate"
    /\ resp.errors = {UniqueConflict}
    /\ \E r1 \in reviews : \E r2 \in reviews :
           r1.listing = r2.listing /\ r1.user # r2.user

\* every foreign key of a stored record names a stored record
NoDanglingReference ==
    /\ \A l \in listings : l.host \in users
    /\ \A b \in bookings : b.listing \in ListingPks /\ b.user \in users
    /\ \A r \in reviews : r.listing \in ListingPks /\ r.user \in users

HostOf(id) == GetListing(id).host

\* a delete step removes the records that reach the deleted one, no others
DeleteCascades ==
    /\ \A l \in listings :
           (resp'.op = "ListingDelete" /\ l \notin listings') =>
               /\ users' = users
               /\ listings' = listings \ {l}
               /\ bookings' = {b \in bookings : b.listing # l.listing_id}
               /\ reviews' = {r \in reviews : r.listing # l.listing_id}
    /\ \A u \in users :
           (resp'.op = "UserDelete" /\ u \notin users') =>
               /\ users' = users \ {u}
               /\ listings' = {l \in listings : l.host # u}
               /\ bookings' = {b \in bookings : b.user # u /\ HostOf(b.listing) # u}
               /\ reviews' = {r \in reviews : r.user # u /\ HostOf(r.listing) # u}

\* C6: no Listing, Booking or Review refers to a record that is not stored;
\* deleting a Listing removes exactly the Bookings and Reviews on it, and
\* deleting a User removes exactly the Listings they host, the Bookings and
\* Reviews they wrote and the Bookings and Reviews on those Listings.
C6_CascadeLeavesNoDanglingReference ==
    [][NoDanglingReference' /\ DeleteCascades]_vars

C6_Witness ==
    /\ resp.op = "UserDelete"
    /\ listings # {}
    /\ bookings # {}
    /\ reviews # {}
    /\ Cardinality(users) = MaxUsers - 1

\* h hundredths is as near to total / count as a hundredth can be
Nearest(h, total, count) ==
    LET d == 100 * total - count * h
    IN  2 * (IF d < 0 THEN 0 - d ELSE d) <= count

AverageRatingRight(l, avg) ==
    IF ReviewsOf(l) = {}
    THEN avg = {}
    ELSE /\ avg # {}
         /\ Nearest(Val(avg), SumRatings(ReviewsOf(l)), Cardinality(ReviewsOf(l)))

\* C7: the average_rating of a Listing is None when it has no Review, and
\* otherwise the hundredth nearest to the mean of the ratings of its Reviews.
C7_AverageRating ==
    /\ \A l \in listings : AverageRatingRight(l, get_average_rating(l))
    /\ resp.op = "ListingRead" =>
           \A d \in resp.data : \E l \in listings :
               /\ l.listing_id = d.listing_id
               /\ AverageRatingRight(l, d.average_rating)

C7_Witness ==
    /\ resp.op = "ListingRead"
    /\ \E d \in resp.data : d.average_rating = {167}

C9_UnknownKeyRejected ==
    /\ \A l \in listings : l.host \in users
    /\ \A b \in bookings : b.listing \in ListingPks /\ b.user \in users
    /\ \A req \in ListingRequests :
           (req.host_id # {} /\ Val(req.host_id) \notin users) =>
               /\ req \in ListingCreateRequests =>
                      /\ ListingCreateOutcome(req).resp.errors = {HostDoesNotExist}
                      /\ ListingCreateOutcome(req).listings = listings
               /\ \A l \in listings :
                      /\ ListingUpdateOutcome(l, req).resp.errors = {HostDoesNotExist}
                      /\ ListingUpdateOutcome(l, req).listings = listings
    /\ \A req \in BookingRequests :
           LET nolisting == req.listing_id # {} /\ Val(req.listing_id) \notin ListingPks
               nouser == req.user_id # {} /\ Val(req.user_id) \notin users
               Right(out) ==
                   /\ nolisting <=> ListingDoesNotExist \in out.resp.errors
                   /\ nouser <=> UserDoesNotExist \in out.resp.errors
                   /\ out.resp.errors \subseteq {ListingDoesNotExist, UserDoesNotExist}
                   /\ out.bookings = bookings
           IN  (nolisting \/ nouser) =>
                   /\ req \in BookingCreateRequests => Right(BookingCreateOutcome(req))
                   /\ \A b \in bookings : Right(BookingUpdateOutcome(b, req))

C9_Witness ==
    /\ resp.op = "BookingUpdate"
    /\ resp.errors = {UserDoesNotExist}
    /\ bookings # {}

====
